---------------------------- MODULE Spec2Model ----------------------------
(*
  Model of the Doit Helper relay (src/main.py): the POST /doit-helper handler,
  the process-wide credential it reads, the outbound call it awaits and the
  responses it sends.

  Text the handler inspects or concatenates (question, context, credential,
  user message) is a sequence of one-character strings.  Text it only passes
  through (hints, details, upstream bodies) is an opaque string.
  An Optional value is a sequence of length 0 (None) or 1 (the value).
*)
EXTENDS Integers, Sequences, FiniteSets, TLC

(* ------------------------------ bounds ------------------------------ *)

\* A question is the concatenation of at most MaxFrags fragments.
MaxFrags == 3

\* Requests that can be in flight together.
NumRequests == 2

Requests == 1..NumRequests

(* --------------------------- program constants ---------------------- *)

\* timeout=30.0 of the outbound post
Timeout == 30

None == <<>>

Some(v) == <<v>>

\* Python truthiness of an Optional[str]: None and "" are falsy.
Truthy(opt) == opt # None /\ opt[1] # <<>>

KwInstall == <<"i","n","s","t","a","l","l">>

KwYaml == <<"y","a","m","l">>

KwErro == <<"e","r","r","o">>

KwError == <<"e","r","r","o","r">>

ContextoPrefix == <<"C","o","n","t","e","x","t","o",":"," ">>

PerguntaPrefix == <<"\n","\n","P","e","r","g","u","n","t","a",":"," ">>

\* The hint and detail texts are opaque to the handler; they are written here
\* without their diacritics.
InstallHints == <<"Teste a instalacao com 'doit --version'",
                  "Consulte https://pydoit.org/install.html">>

YamlHints == <<"Valide seu YAML com ferramentas online antes de usar",
               "Use doit.tools.config_changed para detectar mudancas">>

ErrorHints == <<"Execute 'doit clean' para limpar cache",
                "Use 'doit -v 2' para debug detalhado">>

FallbackHints == <<"Consulte a documentacao oficial do Doit em https://pydoit.org/">>

DetailUnconfigured == "OpenRouter API key not configured"

DetailUpstream == "Error communicating with AI service"

DetailTimeout == "AI service timeout - please try again"

DetailInternal == "Internal server error"

(* ------------------------------ str methods ------------------------- *)

\* str.lower() on the characters the inputs use.
LowerChar(ch) ==
    CASE ch = "A" -> "a" [] ch = "E" -> "e" [] ch = "I" -> "i"
      [] ch = "L" -> "l" [] ch = "M" -> "m" [] ch = "N" -> "n"
      [] ch = "O" -> "o" [] ch = "R" -> "r" [] ch = "S" -> "s"
      [] ch = "T" -> "t" [] ch = "Y" -> "y"
      [] OTHER -> ch

\* Faulty variant: the question matched as typed, .lower() forgotten.
LowerForgotten(s) == s

Lower(s) == [i \in 1..Len(s) |-> LowerChar(s[i])]

\* Python's  needle in hay  on str.
Contains(needle, hay) ==
    \E i \in 0..(Len(hay) - Len(needle)) :
        SubSeq(hay, i + 1, i + Len(needle)) = needle

(* ------------------------------ inputs ------------------------------ *)

Fragments ==
    { <<"I","n","s","t","a","l","l">>,
      <<"Y","A","M","L">>,
      <<"y","a","m","l">>,
      <<"y","a","m">>,
      <<"e","r","r","o">>,
      <<"r">>,
      <<"E","R","R","O","R">>,
      <<" ","d","o","i","t"," ">> }

RECURSIVE Concats(_)
Concats(n) ==
    IF n = 0 THEN { <<>> }
    ELSE LET prev == Concats(n - 1)
         IN  prev \cup { p \o f : p \in prev, f \in Fragments }

\* DoitQuestion.question: any str, the empty one included.
Questions == Concats(MaxFrags)

\* DoitQuestion.context: Optional[str], default None.
Contexts == { None, Some(<<>>), Some(<<"c","i">>) }

\* os.getenv("OPENROUTER_API_KEY"): unset, set to "", or set to a key.
Credentials == { None, Some(<<>>), Some(<<"s","k">>) }

DoitQuestion(q, c) == [question |-> q, context |-> c]


(* ------------------------ the upstream's outcomes ------------------- *)

\* What awaiting client.post(...) can yield: a response (status, body), or an
\* exception of the transport.  The body of a 200 is described by its shape:
\*   "content"        JSON whose choices[0].message.content is the str `content`
\*   "content_null"   JSON whose choices[0].message.content is null
\*   "no_content_key" JSON whose choices[0].message has no "content"
\*   "no_choices"     JSON whose "choices" is empty
\*   "text"           not JSON; `content` is response.text
HttpResponse(status, shape, content) ==
    [kind |-> "response", status_code |-> status, shape |-> shape,
     content |-> content, cls |-> ""]

TransportError(cls, text) ==
    [kind |-> "exception", status_code |-> 0, shape |-> "",
     content |-> text, cls |-> cls]

\* httpx.TimeoutException and its subclasses.
TimeoutClasses == { "TimeoutException", "ConnectTimeout", "ReadTimeout",
                    "WriteTimeout", "PoolTimeout" }

IsTimeoutException(cls) == cls \in TimeoutClasses

Outcomes ==
    { HttpResponse(200, "content", "Use doit list"),
      HttpResponse(200, "content", ""),
      HttpResponse(200, "content_null", ""),
      HttpResponse(200, "no_content_key", ""),
      HttpResponse(200, "no_choices", ""),
      HttpResponse(200, "text", "<html>gateway</html>"),
      HttpResponse(401, "text", "invalid api key sk"),
      HttpResponse(429, "text", "rate limited"),
      HttpResponse(503, "text", "upstream overloaded"),
      TransportError("ConnectError", "connection refused"),
      TransportError("ReadTimeout", "read timed out"),
      TransportError("ConnectTimeout", "connect timed out"),
      TransportError("PoolTimeout", "pool timed out") }

\* Time the outbound call has waited when it yields: the two sides of the limit.
Elapsed == { Timeout, Timeout + 1 }

\* timeout=30.0: the call yields a timeout exception exactly when it has waited
\* longer than Timeout; anything else arrives within it.
Yields(o, t) ==
    (t > Timeout) <=> (o.kind = "exception" /\ IsTimeoutException(o.cls))

(* --------------------------- the handler's parts -------------------- *)

HTTPException(status, detail) ==
    [cls |-> "HTTPException", status_code |-> status, detail |-> detail]

\* Faulty variant: helpful computed from the answer instead of passed as True.
DoitResponseHelpfulIfAnswered(answer, suggestions, helpful) ==
    [status_code |-> 200, answer |-> answer, suggestions |-> suggestions,
     helpful |-> (answer # "")]

DoitResponse(answer, suggestions, helpful) ==
    [status_code |-> 200, answer |-> answer, suggestions |-> suggestions,
     helpful |-> helpful]

\* The response FastAPI sends for an HTTPException leaving the handler.
ErrorResponse(e) == [status_code |-> e.status_code, detail |-> e.detail]

\* Faulty variant: the credential test inverted.
UnconfiguredInverted(key) == Truthy(key)

\* if not OPENROUTER_API_KEY
Unconfigured(key) == ~Truthy(key)

\* Faulty variant: context tested with  is not None  instead of for truth.
UserMessageIsNotNone(req) ==
    IF req.context # None
    THEN ContextoPrefix \o req.context[1] \o PerguntaPrefix \o req.question
    ELSE req.question

\* user_message
UserMessage(req) ==
    IF Truthy(req.context)
    THEN ContextoPrefix \o req.context[1] \o PerguntaPrefix \o req.question
    ELSE req.question

\* The outbound chat-completion call.
ChatCompletion(key, req) ==
    [authorization |-> key, user_message |-> UserMessage(req),
     timeout |-> Timeout]

\* suggestions after the three keyword checks
KeywordHints(question) ==
    LET question_lower == Lower(question)
        s1 == IF Contains(KwInstall, question_lower) THEN InstallHints ELSE <<>>
        s2 == IF Contains(KwYaml, question_lower) THEN s1 \o YamlHints ELSE s1
    IN  IF Contains(KwErro, question_lower) \/ Contains(KwError, question_lower)
        THEN s2 \o ErrorHints ELSE s2

\* Faulty variant: the fallback appended without the  if not suggestions  test.
SuggestionsAlwaysFallback(question) == KeywordHints(question) \o FallbackHints

\* suggestions as returned
Suggestions(question) ==
    IF KeywordHints(question) = <<>> THEN FallbackHints
    ELSE KeywordHints(question)

Raise(e, logs) == [tag |-> "raise", exc |-> e, value |-> <<>>, logged |-> logs]

Return(v) == [tag |-> "return", exc |-> <<>>, value |-> v, logged |-> <<>>]

\* The try block from the point where the awaited call yields o.
TryBlock(req, o) ==
    IF o.kind = "exception"
    THEN Raise([cls |-> o.cls, status_code |-> 0, detail |-> o.content], <<>>)
    ELSE IF o.status_code # 200
    THEN Raise(HTTPException(500, DetailUpstream),
               << [msg |-> "OpenRouter API error",
                   args |-> <<o.status_code, o.content>>] >>)
    ELSE IF o.shape = "text"
    THEN Raise([cls |-> "JSONDecodeError", status_code |-> 0, detail |-> ""], <<>>)
    ELSE IF o.shape = "no_choices"
    THEN Raise([cls |-> "IndexError", status_code |-> 0, detail |-> ""], <<>>)
    ELSE IF o.shape = "no_content_key"
    THEN Raise([cls |-> "KeyError", status_code |-> 0, detail |-> "content"], <<>>)
    ELSE IF o.shape = "content_null"
    THEN Raise([cls |-> "ValidationError", status_code |-> 0, detail |-> "answer"], <<>>)
    ELSE Return(DoitResponse(o.content, Suggestions(req.question), TRUE))

\* Faulty variant: the except clauses in the other order, Exception first.
ExceptClausesExceptionFirst(e) ==
    Raise(HTTPException(500, DetailInternal),
          << [msg |-> "Unexpected error", args |-> <<e>>] >>)

\* Faulty variant: the exception's own text sent as the detail.
ExceptClausesLeaky(e) ==
    IF IsTimeoutException(e.cls)
    THEN Raise(HTTPException(504, DetailTimeout),
               << [msg |-> "Timeout calling OpenRouter API", args |-> <<>>] >>)
    ELSE Raise(HTTPException(500, e.detail),
               << [msg |-> "Unexpected error", args |-> <<e>>] >>)

\* The except clauses, in order: httpx.TimeoutException, then Exception.
ExceptClauses(e) ==
    IF IsTimeoutException(e.cls)
    THEN Raise(HTTPException(504, DetailTimeout),
               << [msg |-> "Timeout calling OpenRouter API", args |-> <<>>] >>)
    ELSE Raise(HTTPException(500, DetailInternal),
               << [msg |-> "Unexpected error", args |-> <<e>>] >>)

\* The HTTPExceptions among a sequence of exceptions.
RECURSIVE OwnRaises(_)
OwnRaises(es) ==
    IF es = <<>> THEN <<>>
    ELSE IF Head(es).cls = "HTTPException"
    THEN <<Head(es)>> \o OwnRaises(Tail(es))
    ELSE OwnRaises(Tail(es))

(* ------------------------------ state ------------------------------- *)

VARIABLES
    OPENROUTER_API_KEY, \* the process-wide credential, read once at import
    pc,                 \* per request: "idle", "awaiting", "done"
    request,            \* per request: Optional DoitQuestion
    outbound,           \* per request: the outbound calls issued
    reply,              \* per request: Optional [outcome, elapsed] in flight
    raised,             \* per request: HTTPExceptions the handler raised
    logged,             \* per request: logger.error records it emitted
    response            \* per request: the responses sent to the caller

vars == << OPENROUTER_API_KEY, pc, request, outbound, reply, raised, logged,
           response >>

Init ==
    /\ OPENROUTER_API_KEY \in Credentials
    /\ pc = [r \in Requests |-> "idle"]
    /\ request = [r \in Requests |-> None]
    /\ outbound = [r \in Requests |-> <<>>]
    /\ reply = [r \in Requests |-> None]
    /\ raised = [r \in Requests |-> <<>>]
    /\ logged = [r \in Requests |-> <<>>]
    /\ response = [r \in Requests |-> <<>>]

\* Faulty variant: one response slot shared by all requests.
AwaitedShared(r) == reply[1]

\* response = await client.post(...): what this request's own call yielded.
Awaited(r) == reply[r]

\* POST /doit-helper with body (q, c): the handler up to its await.
doit_helper(r, q, c) ==
    /\ pc[r] = "idle"
    /\ request' = [request EXCEPT ![r] = Some(DoitQuestion(q, c))]
    /\ IF Unconfigured(OPENROUTER_API_KEY)
       THEN LET e == HTTPException(500, DetailUnconfigured)
            IN  /\ raised' = [raised EXCEPT ![r] = Append(@, e)]
                /\ response' = [response EXCEPT ![r] = Append(@, ErrorResponse(e))]
                /\ pc' = [pc EXCEPT ![r] = "done"]
                /\ UNCHANGED outbound
       ELSE /\ outbound' = [outbound EXCEPT ![r] =
                   Append(@, ChatCompletion(OPENROUTER_API_KEY, DoitQuestion(q, c)))]
            /\ pc' = [pc EXCEPT ![r] = "awaiting"]
            /\ UNCHANGED << raised, response >>
    /\ UNCHANGED << OPENROUTER_API_KEY, reply, logged >>

\* A client posts a question drawn from Q with a context drawn from C.
Post(r, Q, C) ==
    /\ pc[r] = "idle"
    /\ \E q \in Q, c \in C : doit_helper(r, q, c)

\* The awaited call of request r yields outcome o after waiting t.
OpenRouterYields(r, o, t) ==
    /\ pc[r] = "awaiting"
    /\ reply[r] = None
    /\ Yields(o, t)
    /\ reply' = [reply EXCEPT ![r] = Some([outcome |-> o, elapsed |-> t])]
    /\ UNCHANGED << OPENROUTER_API_KEY, pc, request, outbound, raised, logged,
                    response >>

\* The handler from its await to its end.
doit_helper_resume(r) ==
    /\ pc[r] = "awaiting"
    /\ Awaited(r) # None
    /\ LET body == TryBlock(request[r][1], Awaited(r)[1].outcome)
       IN  IF body.tag = "return"
           THEN /\ response' = [response EXCEPT ![r] = Append(@, body.value)]
                /\ UNCHANGED << raised, logged >>
           ELSE LET handled == ExceptClauses(body.exc)
                IN  /\ raised' = [raised EXCEPT ![r] =
                           @ \o OwnRaises(<<body.exc, handled.exc>>)]
                    /\ logged' = [logged EXCEPT ![r] =
                           @ \o body.logged \o handled.logged]
                    /\ response' = [response EXCEPT ![r] =
                           Append(@, ErrorResponse(handled.exc))]
    /\ pc' = [pc EXCEPT ![r] = "done"]
    /\ UNCHANGED << OPENROUTER_API_KEY, request, outbound, reply >>

\* One request, every input.
Next ==
    \/ Post(1, Questions, Contexts)
    \/ \E o \in Outcomes, t \in Elapsed : OpenRouterYields(1, o, t)
    \/ doit_helper_resume(1)

Spec == Init /\ [][Next]_vars

(* ------------------- several requests in flight --------------------- *)

ConcQuestions == { <<"Y","A","M","L">>, <<" ","d","o","i","t"," ">> }

ConcContexts == { None, Some(<<"c","i">>) }

ConcOutcomes ==
    { HttpResponse(200, "content", "Use doit list"),
      HttpResponse(200, "content_null", ""),
      HttpResponse(401, "text", "invalid api key sk"),
      HttpResponse(503, "text", "upstream overloaded"),
      TransportError("ConnectError", "connection refused"),
      TransportError("ReadTimeout", "read timed out"),
      TransportError("ConnectTimeout", "connect timed out") }

NextConc ==
    \/ \E r \in Requests : Post(r, ConcQuestions, ConcContexts)
    \/ \E r \in Requests, o \in ConcOutcomes, t \in Elapsed :
          OpenRouterYields(r, o, t)
    \/ \E r \in Requests : doit_helper_resume(r)

SpecConc == Init /\ [][NextConc]_vars

(* ------------------------------ properties --------------------------- *)

Done(r) == pc[r] = "done"

Configured == OPENROUTER_API_KEY # None /\ OPENROUTER_API_KEY[1] # <<>>

Question(r) == request[r][1].question

Context(r) == request[r][1].context

Replied(r) == reply[r] # None

Got(r) == reply[r][1].outcome

Waited(r) == reply[r][1].elapsed

Sent(r) == response[r][1]

Succeeded(r) == Done(r) /\ Sent(r).status_code = 200

Failed(r) == Done(r) /\ Sent(r).status_code # 200

GotStatus(r) == Replied(r) /\ Got(r).kind = "response"

\* C1: with the credential configured, a non-200 status from the upstream ends
\* the request with status 500 and the upstream-error detail, which is not the
\* Internal detail.
C1_UpstreamErrorDetail ==
    /\ DetailUpstream # DetailInternal
    /\ \A r \in Requests :
          (Done(r) /\ Configured /\ GotStatus(r) /\ Got(r).status_code # 200)
          => Sent(r) = [status_code |-> 500, detail |-> DetailUpstream]

\* C2 as claimed: with the credential configured and the upstream returning
\* 200, the caller gets an Answer with helpful = true and a non-empty answer,
\* whatever the first choice's content.
C2_NonEmptyAnswer ==
    \A r \in Requests :
        (Done(r) /\ Configured /\ GotStatus(r) /\ Got(r).status_code = 200)
        => /\ Sent(r).status_code = 200
           /\ Sent(r).helpful = TRUE
           /\ Sent(r).answer # ""

\* C2 as amended: with the credential configured and the upstream returning
\* 200, the caller gets an Answer exactly when the first choice's content is a
\* string; the Answer has helpful = true and that content, empty or not, as its
\* answer; otherwise the request fails with status 500 and the Internal detail.
C2_AnswerIsContent ==
    \A r \in Requests :
        (Done(r) /\ Configured /\ GotStatus(r) /\ Got(r).status_code = 200)
        => IF Got(r).shape = "content"
           THEN /\ Sent(r).status_code = 200
                /\ Sent(r).helpful = TRUE
                /\ Sent(r).answer = Got(r).content
           ELSE Sent(r) = [status_code |-> 500, detail |-> DetailInternal]

\* A 200 whose first choice's content is the empty string was answered.
C2_Witness ==
    \E r \in Requests :
        /\ Done(r) /\ Configured /\ GotStatus(r)
        /\ Got(r) = HttpResponse(200, "content", "")
        /\ Sent(r).status_code = 200 /\ Sent(r).answer = ""

\* C3: with the credential unset the request ends with status 500 and the
\* fixed configuration detail, for every question and context, and no outbound
\* call is ever issued for it.
C3_UnconfiguredNoCall ==
    \A r \in Requests :
        ~Configured
        => /\ outbound[r] = <<>>
           /\ ~Replied(r)
           /\ pc[r] # "awaiting"
           /\ Done(r) => response[r] =
                  << [status_code |-> 500, detail |-> DetailUnconfigured] >>

\* A request with a context and a keyword question was refused for the unset
\* credential.
C3_Witness ==
    \E r \in Requests :
        /\ OPENROUTER_API_KEY = None /\ Done(r)
        /\ Context(r) # None /\ Len(Question(r)) > 0
        /\ Sent(r).status_code = 500

\* C4: a request whose outbound call waits longer than the timeout ends with
\* status 504 and the timeout detail, and no other request ends with 504.
C4_TimeoutIs504 ==
    \A r \in Requests :
        Done(r)
        => /\ (Replied(r) /\ Waited(r) > Timeout)
                 => Sent(r) = [status_code |-> 504, detail |-> DetailTimeout]
           /\ Sent(r).status_code = 504
                 => /\ Replied(r) /\ Waited(r) > Timeout
                    /\ Got(r).kind = "exception"
                    /\ Got(r).cls \in TimeoutClasses

\* A request timed out and was answered 504.
C4_Witness ==
    \E r \in Requests :
        /\ Done(r) /\ Replied(r) /\ Waited(r) = Timeout + 1
        /\ Got(r).cls = "ReadTimeout"
        /\ Sent(r).status_code = 504

\* The two spellings of each letter of the trigger words.
CasePairs ==
    { <<"a","A">>, <<"e","E">>, <<"i","I">>, <<"l","L">>, <<"m","M">>,
      <<"n","N">>, <<"o","O">>, <<"r","R">>, <<"s","S">>, <<"t","T">>,
      <<"y","Y">> }

\* word occurs in text, letter case ignored.
Mentions(text, word) ==
    \E i \in 0..(Len(text) - Len(word)) :
        \A k \in 1..Len(word) :
            \/ text[i + k] = word[k]
            \/ <<word[k], text[i + k]>> \in CasePairs

AsksInstall(r) == Mentions(Question(r), KwInstall)

AsksYaml(r) == Mentions(Question(r), KwYaml)

AsksError(r) == Mentions(Question(r), KwErro) \/ Mentions(Question(r), KwError)

\* C5: on success, when a trigger is found, suggestions is the install pair,
\* the YAML pair and the error pair, in that order, each present exactly when
\* its trigger occurs in the question with letter case ignored; a question with
\* "yaml" and "error" and no "install" gets the YAML pair then the error pair.
C5_GroupsInOrder ==
    \A r \in Requests :
        Succeeded(r)
        => /\ (AsksInstall(r) \/ AsksYaml(r) \/ AsksError(r))
                 => Sent(r).suggestions =
                        (IF AsksInstall(r) THEN InstallHints ELSE <<>>)
                        \o (IF AsksYaml(r) THEN YamlHints ELSE <<>>)
                        \o (IF AsksError(r) THEN ErrorHints ELSE <<>>)
           /\ (AsksYaml(r) /\ Mentions(Question(r), KwError) /\ ~AsksInstall(r))
                 => Sent(r).suggestions =
                        << YamlHints[1], YamlHints[2],
                           ErrorHints[1], ErrorHints[2] >>

\* A question spelling YAML and ERROR in capitals, without install, succeeded
\* with four hints.
C5_Witness ==
    \E r \in Requests :
        /\ Succeeded(r)
        /\ Contains(<<"Y","A","M","L">>, Question(r))
        /\ Contains(<<"E","R","R","O","R">>, Question(r))
        /\ ~AsksInstall(r)
        /\ Len(Sent(r).suggestions) = 4

\* C6: on success, suggestions is the one-element fallback list exactly when
\* the question has no trigger; otherwise the fallback hint is absent; and
\* suggestions is never empty.
C6_FallbackIffNoTrigger ==
    \A r \in Requests :
        Succeeded(r)
        => /\ Len(FallbackHints) = 1
           /\ Sent(r).suggestions # <<>>
           /\ (Sent(r).suggestions = FallbackHints)
                 <=> ~(AsksInstall(r) \/ AsksYaml(r) \/ AsksError(r))
           /\ (AsksInstall(r) \/ AsksYaml(r) \/ AsksError(r))
                 => \A i \in 1..Len(Sent(r).suggestions) :
                        Sent(r).suggestions[i] # FallbackHints[1]

\* A question without a trigger got the fallback, and one with a trigger did
\* not: both cases are seen in the witness of C6 (the first) and C5.
C6_Witness ==
    \E r \in Requests :
        /\ Succeeded(r)
        /\ Len(Question(r)) > 0
        /\ ~(AsksInstall(r) \/ AsksYaml(r) \/ AsksError(r))
        /\ Sent(r).suggestions = FallbackHints

\* C7 as claimed: the user message sent upstream is the Contexto/Pergunta text
\* whenever the context is present, the empty string included, and the
\* question verbatim only when the context is absent.
C7_ContextPresent ==
    \A r \in Requests :
        outbound[r] # <<>>
        => outbound[r][1].user_message =
              IF Context(r) # None
              THEN ContextoPrefix \o Context(r)[1] \o PerguntaPrefix \o Question(r)
              ELSE Question(r)

\* C7 as amended: the user message sent upstream is the Contexto/Pergunta text
\* whenever the context is present and not the empty string, and the question
\* verbatim when the context is absent or the empty string.
C7_ContextNonEmpty ==
    \A r \in Requests :
        outbound[r] # <<>>
        => outbound[r][1].user_message =
              IF Context(r) # None /\ Len(Context(r)[1]) > 0
              THEN ContextoPrefix \o Context(r)[1] \o PerguntaPrefix \o Question(r)
              ELSE Question(r)

\* The question YAML was sent with context "ci" as the formatted text, and a
\* call was issued.
C7_Witness ==
    \E r \in Requests :
        /\ outbound[r] # <<>>
        /\ Context(r) = Some(<<"c","i">>)
        /\ outbound[r][1].user_message =
              << "C","o","n","t","e","x","t","o",":"," ","c","i","\n","\n",
                 "P","e","r","g","u","n","t","a",":"," ","Y","A","M","L" >>

\* C8: a request issues at most one outbound call and ends in exactly one
\* response; a failure is raised and logged once, not raised again as a second
\* error.
C8_ReportedOnce ==
    \A r \in Requests :
        /\ Len(outbound[r]) <= 1
        /\ Len(response[r]) = (IF Done(r) THEN 1 ELSE 0)
        /\ Len(raised[r]) <= 1
        /\ Len(logged[r]) <= 1

\* The error kind of a failed request, by its cause.
Kind(r) ==
    IF ~Replied(r) THEN "Unconfigured"
    ELSE IF Got(r).kind = "exception" /\ Got(r).cls \in TimeoutClasses
    THEN "UpstreamTimeout"
    ELSE IF Got(r).kind = "response" /\ Got(r).status_code # 200
    THEN "UpstreamError"
    ELSE "Internal"

\* C9: the status and detail of an error response are those of its kind: two
\* failed requests of the same kind get the same status and detail whatever the
\* upstream's status, body or exception text; the status is 500 or 504 and the
\* detail one of the four fixed strings.
C9_NoUpstreamLeak ==
    \A r1, r2 \in Requests :
        Failed(r1)
        => /\ Sent(r1).status_code \in {500, 504}
           /\ Sent(r1).detail \in { DetailUnconfigured, DetailUpstream,
                                    DetailTimeout, DetailInternal }
           /\ (Failed(r2) /\ Kind(r1) = Kind(r2)) => Sent(r1) = Sent(r2)

\* Two failed requests of one kind whose upstream outcomes differ, for the
\* UpstreamError kind and for the Internal kind.
C9_Witness ==
    \E r1, r2 \in Requests :
        /\ Failed(r1) /\ Failed(r2)
        /\ Replied(r1) /\ Replied(r2)
        /\ Kind(r1) = Kind(r2)
        /\ Kind(r1) = "Internal"
        /\ Got(r1).cls = "ConnectError"
        /\ Got(r2).shape = "content_null"

\* A step of request r.
RequestStep(r) ==
    \/ Post(r, ConcQuestions, ConcContexts)
    \/ \E o \in ConcOutcomes, t \in Elapsed : OpenRouterYields(r, o, t)
    \/ doit_helper_resume(r)

\* A step leaves request r as it was.
SameRequest(r) ==
    /\ pc'[r] = pc[r] /\ request'[r] = request[r]
    /\ outbound'[r] = outbound[r] /\ reply'[r] = reply[r]
    /\ raised'[r] = raised[r] /\ logged'[r] = logged[r]
    /\ response'[r] = response[r]

\* No request waits for another, and equal inputs give equal responses.
C10_Independent ==
    \A r \in Requests :
        /\ ~Done(r) => ENABLED RequestStep(r)
        /\ \A s \in Requests :
              (Done(r) /\ Done(s) /\ request[r] = request[s] /\ reply[r] = reply[s])
              => response[r] = response[s]

\* A step touches one request, and never a finished one or the credential.
C10_OneRequestPerStep ==
    /\ OPENROUTER_API_KEY' = OPENROUTER_API_KEY
    /\ \E r \in Requests : \A s \in Requests \ {r} : SameRequest(s)
    /\ \A r \in Requests : Done(r) => SameRequest(r)

\* C10: with requests interleaved, a request that has not finished can always
\* take its next step whatever the others are doing (none blocks another); two
\* finished requests with the same question, context and upstream outcome have
\* the same response under the one credential; and a step changes the state of
\* one request only and never that of a finished one.
C10_Unaffected == []C10_Independent /\ [][C10_OneRequestPerStep]_vars

\* Request 1 is still suspended on its outbound call while request 2, which
\* started after it, has finished with an Answer.
C10_Witness ==
    /\ pc[1] = "awaiting" /\ ~Replied(1)
    /\ Succeeded(2)

=============================================================================
